---- MODULE Spec2Model ----
(***************************************************************************)
(* Sekolah Absenku: the request handlers of the attendance application,    *)
(* modelled over the relational tables of server/src/db/schema.ts.         *)
(*                                                                         *)
(* A table is a set of rows (records); serial primary keys come from the   *)
(* per-table counters in seq and are never reused.  A handler is one       *)
(* action, except createSiswa, whose statements are separate steps of a    *)
(* request in flight so that concurrent requests interleave.  The outcome  *)
(* of the last handler that ran is kept in res (its name, the message it   *)
(* returned or threw, and the id it was about), the last dashboard         *)
(* statistics in stats, the last attendance history returned in history.   *)
(* absenMasuk and createUser have, next to their one-action form, a form   *)
(* of one step per statement, whose requests in flight are in am and cu.   *)
(***************************************************************************)
EXTENDS Integers, FiniteSets, Sequences, TLC

VARIABLES users, guru, kelas, siswa, absensi, pengajuan, seq, now, cs, res, stats,
          history, am, cu

vars == <<users, guru, kelas, siswa, absensi, pengajuan, seq, now, cs, res, stats,
          history, am, cu>>

tables == <<users, guru, kelas, siswa, absensi, pengajuan>>

(***************************************************************************)
(* Bounds of the model.                                                    *)
(***************************************************************************)
\* rows ever inserted into users / kelas / siswa / absensi / pengajuan_izin
MaxUsers == 2
MaxKelas == 2
MaxSiswa == 2
MaxGuru == 2
MaxAbsensi == 2
MaxIzin == 2
\* the clock runs over the ticks 0..MaxTime
MaxTime == 3

\* clock ticks in a calendar day: tick 0 of a day is 00:00:00.000
TicksPerDay == 2

(***************************************************************************)
(* Column values.                                                          *)
(***************************************************************************)
\* SQL NULL of a text column, and of an integer / timestamp column
NULL == "NULL"
NoId == 0
NoTime == -1
\* a field absent from an input object (JavaScript undefined)
UNDEF == "UNDEF"

roleEnum == {"admin", "guru", "siswa"}
attendanceStatusEnum == {"hadir", "izin", "sakit", "alpha"}
requestStatusEnum == {"pending", "approved", "rejected"}
jenisEnum == {"izin", "sakit"}

\* identifier strings the inputs are drawn from ("" is the empty string)
Usernames == {"", "a"}
Nips == {"x"}
Nisns == {"n", "m"}
Passwords == {"p", "q"}
Salts == {"s1"}

Ids(rows) == {r.id : r \in rows}
Row(rows, id) == CHOOSE r \in rows : r.id = id

\* a DB error surfaces as a thrown error with the driver's message
FKViolation == "violates foreign key constraint"
UniqueViolation == "duplicate key value violates unique constraint"

Result(op, msg, id) == [op |-> op, msg |-> msg, id |-> id]
\* the last answer of getAbsensiHistory, with its input
NoHistory ==
    [input |-> [siswa_id |-> NoId, kelas_id |-> NoId, start_date |-> NoTime,
                end_date |-> NoTime, limit |-> 0, offset |-> 0],
     rows |-> <<>>]
NoStats == [hadir |-> 0, izin |-> 0, sakit |-> 0, alpha |-> 0, pengajuan_pending |-> 0]

(***************************************************************************)
(* Time: today at 00:00:00 and tomorrow at 00:00:00, as the handlers       *)
(* compute them from new Date().                                           *)
(***************************************************************************)
Today(t) == (t \div TicksPerDay) * TicksPerDay
Tomorrow(t) == Today(t) + TicksPerDay

(***************************************************************************)
(* Password hashes.  A stored password_hash is a text; the model keeps how *)
(* it was made: the hex SHA-256 digest of a password (what login computes, *)
(* and what the seeded rows of tests/auth.test.ts hold), the text          *)
(* "<salt hex>:<PBKDF2 hex>" of hashPassword, or a text that is no hex     *)
(* string at all ('hashed_password' in the other fixtures).                *)
(***************************************************************************)
Sha256Hex(pw) == [alg |-> "sha256", salt |-> "", pw |-> pw]
PlainText == [alg |-> "text", salt |-> "", pw |-> ""]

\* hashPassword: `${salt}:${hash}`, salt 32 random bytes in hex, hash PBKDF2-SHA512
hashPassword(password, salt) == [alg |-> "pbkdf2", salt |-> salt, pw |-> password]

\* Buffer.from(text, 'hex'): the bytes of the leading hex digits, up to the first
\* character that is none.  A SHA-256 digest has 32 bytes; of "<salt>:<hash>" the
\* 32 salt bytes are read; of a text that starts with no hex pair, nothing.  A
\* random salt is taken never to equal a digest.
BufferFromHex(h) ==
    CASE h.alg = "sha256" -> [len |-> 32, bytes |-> <<"sha256", h.pw>>]
      [] h.alg = "pbkdf2" -> [len |-> 32, bytes |-> <<"salt", h.salt>>]
      [] OTHER -> [len |-> 0, bytes |-> <<>>]

\* crypto.timingSafeEqual throws a RangeError on buffers of different lengths
RangeError == "Input buffers must have the same byte length"
timingSafeEqualThrows(a, b) == a.len # b.len
timingSafeEqual(a, b) == a.bytes = b.bytes

\* JavaScript truthiness of a text that may be null or absent
Truthy(x) == x \notin {NULL, UNDEF, ""}

\* The request in flight of a createSiswa worker, and the workers.
Procs == {"w1", "w2"}
CsIdle == [pc |-> "idle", user_id |-> NoId, nisn |-> NULL, kelas_id |-> NoId]
\* The request in flight of an absenMasuk worker: its input, the class of the
\* student it read, and the id of the row its SELECT gave it (NoId: none).
AmIdle == [pc |-> "idle", siswa_id |-> NoId, kelas_id |-> NoId, existing |-> NoId]
\* The request in flight of a createUser worker: its input and password hash.
CuIdle ==
    [pc |-> "idle",
     input |-> [username |-> NULL, nip |-> NULL, nisn |-> NULL, password |-> "",
                role |-> NULL],
     password_hash |-> PlainText]

(***************************************************************************)
(* The rows createPrerequisiteData of tests/pengajuan_izin.test.ts seeds:  *)
(* an admin, a guru and a siswa user, the guru and siswa profiles and the  *)
(* class (here with a second class to move the student to).                *)
(***************************************************************************)
User(id, role, username, nip, nisn, hash) ==
    [id |-> id, role |-> role, username |-> username, nip |-> nip, nisn |-> nisn,
     password_hash |-> hash]

FixtureUsers ==
    {User(1, "admin", "a", NULL, NULL, PlainText),
     User(2, "guru", NULL, "x", NULL, PlainText),
     User(3, "siswa", NULL, NULL, "n", PlainText)}
FixtureGuru == {[id |-> 1, user_id |-> 2, nip |-> "x"]}
FixtureKelas == {[id |-> 1, wali_kelas_id |-> 1], [id |-> 2, wali_kelas_id |-> 1]}
FixtureSiswa == {[id |-> 1, user_id |-> 3, nisn |-> "n", kelas_id |-> 1]}

\* the next serial id of each table, given its rows
NextIds(u, g, k, s) ==
    [users |-> Cardinality(u) + 1, guru |-> Cardinality(g) + 1,
     kelas |-> Cardinality(k) + 1, siswa |-> Cardinality(s) + 1,
     absensi |-> 1, pengajuan |-> 1]

(***************************************************************************)
(* The constraints of the schema, as the database enforces them on each    *)
(* statement.                                                              *)
(***************************************************************************)
\* absensi: siswa_id -> siswa.id, guru_id -> guru.id (nullable), kelas_id -> kelas.id
AbsensiInsertOK(row) ==
    /\ row.siswa_id \in Ids(siswa)
    /\ row.guru_id = NoId \/ row.guru_id \in Ids(guru)
    /\ row.kelas_id \in Ids(kelas)

\* the siswa constraints without UNIQUE(nisn): what the handler's own check
\* gives when the database does not back it
SiswaInsertNoUnique(row) ==
    /\ row.user_id \in Ids(users)
    /\ row.kelas_id \in Ids(kelas)

\* siswa: user_id -> users.id, kelas_id -> kelas.id, nisn unique
SiswaInsertOK(row) ==
    /\ row.user_id \in Ids(users)
    /\ row.kelas_id \in Ids(kelas)
    /\ ~(\E s \in siswa : s.nisn = row.nisn)

\* the constraint an INSERT into siswa breaks, if any
SiswaInsertError(row) ==
    IF row.user_id \notin Ids(users) \/ row.kelas_id \notin Ids(kelas)
    THEN FKViolation ELSE UniqueViolation

\* kelas: referenced by siswa.kelas_id and absensi.kelas_id, both ON DELETE restrict
KelasDeleteOK(id) ==
    /\ ~(\E s \in siswa : s.kelas_id = id)
    /\ ~(\E a \in absensi : a.kelas_id = id)

\* pengajuan_izin: siswa_id -> siswa.id, reviewer_id -> users.id (nullable)
PengajuanRowOK(row) ==
    /\ row.siswa_id \in Ids(siswa)
    /\ row.reviewer_id = NoId \/ row.reviewer_id \in Ids(users)

(***************************************************************************)
(* handlers/pengajuan_izin.ts                                              *)
(***************************************************************************)
CreatePengajuanIzinInputs ==
    [siswa_id : 1..(MaxSiswa + 1), tanggal : {0, TicksPerDay}, jenis : jenisEnum]

\* createPengajuanIzin without its SELECT of the student: the INSERT alone
createPengajuanIzinUnchecked(input) ==
    /\ seq.pengajuan <= MaxIzin
    /\ pengajuan' = pengajuan \cup
           {[id |-> seq.pengajuan, siswa_id |-> input.siswa_id,
             tanggal |-> input.tanggal, jenis |-> input.jenis,
             status |-> "pending", reviewer_id |-> NoId, reviewed_at |-> NoTime]}
    /\ seq' = [seq EXCEPT !.pengajuan = @ + 1]
    /\ res' = Result("createPengajuanIzin", "ok", seq.pengajuan)
    /\ UNCHANGED <<users, guru, kelas, siswa, absensi, now, cs, stats, history, am, cu>>

createPengajuanIzin(input) ==
    /\ seq.pengajuan <= MaxIzin
    /\ IF ~(\E s \in siswa : s.id = input.siswa_id)
       THEN /\ res' = Result("createPengajuanIzin", "Siswa not found", input.siswa_id)
            /\ UNCHANGED <<pengajuan, seq>>
       ELSE /\ pengajuan' = pengajuan \cup
                   {[id |-> seq.pengajuan, siswa_id |-> input.siswa_id,
                     tanggal |-> input.tanggal, jenis |-> input.jenis,
                     status |-> "pending", reviewer_id |-> NoId, reviewed_at |-> NoTime]}
            /\ seq' = [seq EXCEPT !.pengajuan = @ + 1]
            /\ res' = Result("createPengajuanIzin", "ok", seq.pengajuan)
    /\ UNCHANGED <<users, guru, kelas, siswa, absensi, now, cs, stats, history, am, cu>>

ReviewPengajuanIzinInputs ==
    [id : 1..(MaxIzin + 1), status : {"approved", "rejected"}, reviewer_id : 1..4]

\* the status of the attendance row an approved request of this jenis produces
absensiStatus(jenis) == IF jenis = "sakit" THEN "sakit" ELSE "izin"

\* the row reviewPengajuanIzin inserts for the selected request p joined with its siswa
ReviewAbsensiRow(p, input) ==
    [id |-> seq.absensi, siswa_id |-> p.siswa_id,
     kelas_id |-> Row(siswa, p.siswa_id).kelas_id,
     status |-> absensiStatus(p.jenis), tanggal |-> p.tanggal,
     waktu_masuk |-> NoTime, waktu_pulang |-> NoTime,
     keterangan |-> "Approved", guru_id |-> input.reviewer_id]

\* the UPDATE without its reviewer_id column
ReviewUpdatedRowNoReviewer(p, input) ==
    [p EXCEPT !.status = input.status, !.reviewed_at = now]

\* the UPDATE ... SET status, reviewer_id, reviewed_at = NOW()
ReviewUpdatedRow(p, input) ==
    [p EXCEPT !.status = input.status, !.reviewer_id = input.reviewer_id,
              !.reviewed_at = now]

reviewPengajuanIzin(input) ==
    /\ input.status = "approved" => seq.absensi <= MaxAbsensi
    /\ LET found == {p \in pengajuan : p.id = input.id /\ p.siswa_id \in Ids(siswa)}
       IN IF found = {}
          THEN /\ res' = Result("reviewPengajuanIzin", "Pengajuan izin not found", input.id)
               /\ UNCHANGED <<pengajuan, absensi, seq>>
          ELSE LET p == CHOOSE q \in found : TRUE
                   upd == ReviewUpdatedRow(p, input)
                   row == ReviewAbsensiRow(p, input)
               IN IF ~PengajuanRowOK(upd)
                  THEN \* the UPDATE is refused: nothing was written
                       /\ res' = Result("reviewPengajuanIzin", FKViolation, input.id)
                       /\ UNCHANGED <<pengajuan, absensi, seq>>
                  ELSE /\ pengajuan' = (pengajuan \ {p}) \cup {upd}
                       /\ IF input.status # "approved"
                          THEN /\ res' = Result("reviewPengajuanIzin", "ok", input.id)
                               /\ UNCHANGED <<absensi, seq>>
                          ELSE IF AbsensiInsertOK(row)
                          THEN /\ absensi' = absensi \cup {row}
                               /\ seq' = [seq EXCEPT !.absensi = @ + 1]
                               /\ res' = Result("reviewPengajuanIzin", "ok", input.id)
                          ELSE \* the INSERT is refused after the UPDATE was written
                               /\ res' = Result("reviewPengajuanIzin", FKViolation, input.id)
                               /\ UNCHANGED <<absensi, seq>>
    /\ UNCHANGED <<users, guru, kelas, siswa, now, cs, stats, history, am, cu>>

(***************************************************************************)
(* handlers/siswa.ts: updateSiswa.  Of its fields only kelas_id is a       *)
(* column of the model; kelas_id = NoId stands for an input without it.    *)
(***************************************************************************)
UpdateSiswaInputs == [id : 1..(MaxSiswa + 1), kelas_id : 0..(MaxKelas + 1)]

updateSiswa(input) ==
    /\ IF ~(\E s \in siswa : s.id = input.id)
       THEN /\ res' = Result("updateSiswa", "Siswa not found", input.id)
            /\ UNCHANGED siswa
       ELSE IF input.kelas_id # NoId /\ ~(\E k \in kelas : k.id = input.kelas_id)
       THEN /\ res' = Result("updateSiswa", "Kelas not found", input.id)
            /\ UNCHANGED siswa
       ELSE /\ siswa' = {IF s.id = input.id /\ input.kelas_id # NoId
                         THEN [s EXCEPT !.kelas_id = input.kelas_id] ELSE s : s \in siswa}
            /\ res' = Result("updateSiswa", "ok", input.id)
    /\ UNCHANGED <<users, guru, kelas, absensi, pengajuan, seq, now, cs, stats, history, am, cu>>

(***************************************************************************)
(* Leave requests: the handlers of pengajuan_izin.ts over the seeded rows. *)
(***************************************************************************)
InitIzin ==
    /\ users = FixtureUsers
    /\ guru = FixtureGuru
    /\ kelas = FixtureKelas
    /\ siswa = FixtureSiswa
    /\ absensi = {}
    /\ pengajuan = {}
    /\ seq = NextIds(FixtureUsers, FixtureGuru, FixtureKelas, FixtureSiswa)
    /\ now = 0
    /\ cs = [p \in Procs |-> CsIdle]
    /\ res = Result("init", "", NoId)
    /\ stats = NoStats
    /\ history = NoHistory
    /\ am = [p \in Procs |-> AmIdle]
    /\ cu = [p \in Procs |-> CuIdle]

NextIzin ==
    \/ \E input \in CreatePengajuanIzinInputs : createPengajuanIzin(input)
    \/ \E input \in ReviewPengajuanIzinInputs : reviewPengajuanIzin(input)
    \/ \E input \in UpdateSiswaInputs : updateSiswa(input)

SpecIzin == InitIzin /\ [][NextIzin]_vars

(***************************************************************************)
(* C1: an approving reviewPengajuanIzin on an existing request inserts an  *)
(* attendance row for the request's student and date, with status sakit    *)
(* or izin after the request's jenis, guru_id = reviewer_id and kelas_id =  *)
(* the student's current class, and the request becomes approved with      *)
(* reviewer_id and reviewed_at set.                                        *)
(***************************************************************************)
C1_Approved(p, input) ==
    /\ \E a \in absensi' \ absensi :
          /\ a.siswa_id = p.siswa_id
          /\ a.tanggal = p.tanggal
          /\ a.status = (IF p.jenis = "sakit" THEN "sakit" ELSE "izin")
          /\ a.guru_id = input.reviewer_id
          /\ a.kelas_id = Row(siswa, p.siswa_id).kelas_id
    /\ \E q \in pengajuan' :
          /\ q.id = p.id
          /\ q.status = "approved"
          /\ q.reviewer_id = input.reviewer_id
          /\ q.reviewed_at # NoTime

C1_ApproveCreatesAbsensi ==
    [][\A input \in ReviewPengajuanIzinInputs : \A p \in pengajuan :
          (reviewPengajuanIzin(input) /\ input.status = "approved" /\ p.id = input.id)
              => C1_Approved(p, input)]_vars

\* the approval that the test covers: the reviewer id names a user and a guru row
C1_ApprovedSeen ==
    /\ res.op = "reviewPengajuanIzin" /\ res.msg = "ok"
    /\ \E p \in pengajuan : p.id = res.id /\ p.status = "approved"

(***************************************************************************)
(* handlers/kelas.ts                                                       *)
(***************************************************************************)
CreateKelasInputs == [wali_kelas_id : 1..2]

createKelas(input) ==
    /\ seq.kelas <= MaxKelas
    /\ IF ~(\E g \in guru : g.id = input.wali_kelas_id)
       THEN /\ res' = Result("createKelas", "Wali kelas (guru) not found", NoId)
            /\ UNCHANGED <<kelas, seq>>
       ELSE /\ kelas' = kelas \cup {[id |-> seq.kelas, wali_kelas_id |-> input.wali_kelas_id]}
            /\ seq' = [seq EXCEPT !.kelas = @ + 1]
            /\ res' = Result("createKelas", "ok", seq.kelas)
    /\ UNCHANGED <<users, guru, siswa, absensi, pengajuan, now, cs, stats, history, am, cu>>

\* a deleteKelas that finds no student in any class
siswaCountNone(id) == {}

\* the SELECT of deleteKelas: the students assigned to the class
siswaCount(id) == {s \in siswa : s.kelas_id = id}

deleteKelas(id) ==
    /\ IF siswaCount(id) # {}
       THEN /\ res' = Result("deleteKelas", "Cannot delete kelas with assigned students", id)
            /\ UNCHANGED kelas
       ELSE IF ~(\E k \in kelas : k.id = id)
       THEN /\ res' = Result("deleteKelas", "Kelas not found", id)
            /\ UNCHANGED kelas
       ELSE IF ~KelasDeleteOK(id)
       THEN /\ res' = Result("deleteKelas", FKViolation, id)
            /\ UNCHANGED kelas
       ELSE /\ kelas' = {k \in kelas : k.id # id}
            /\ res' = Result("deleteKelas", "Kelas deleted successfully", id)
    /\ UNCHANGED <<users, guru, siswa, absensi, pengajuan, seq, now, cs, stats, history, am, cu>>

(***************************************************************************)
(* handlers/siswa.ts: createSiswa, one step per statement.  A worker holds *)
(* the input of its request between its statements; other requests run in  *)
(* between.                                                                *)
(***************************************************************************)
CreateSiswaInputs ==
    [user_id : 1..3, nisn : Nisns, kelas_id : 1..(MaxKelas + 1)]

\* the request of worker p ends with this message
csEnd(p, msg) ==
    /\ cs' = [cs EXCEPT ![p] = CsIdle]
    /\ res' = Result("createSiswa", msg, NoId)

csGoto(p, pc) ==
    /\ cs' = [cs EXCEPT ![p].pc = pc]
    /\ UNCHANGED res

\* a user lookup that asks for the row alone, whatever its role
csUserExists(user_id) == \E u \in users : u.id = user_id

\* the user exists and has role 'siswa'
csUserOK(user_id) == \E u \in users : u.id = user_id /\ u.role = "siswa"

\* a class lookup that finds a class whatever the id
csKelasAny(kelas_id) == TRUE

\* the class exists
csKelasOK(kelas_id) == \E k \in kelas : k.id = kelas_id

\* no student holds the NISN
csNisnFree(nisn) == ~(\E s \in siswa : s.nisn = nisn)

csCheckUser(p, input) ==
    /\ cs[p].pc = "idle"
    /\ IF csUserOK(input.user_id)
       THEN /\ cs' = [cs EXCEPT ![p] = [pc |-> "kelas", user_id |-> input.user_id,
                                        nisn |-> input.nisn, kelas_id |-> input.kelas_id]]
            /\ UNCHANGED res
       ELSE csEnd(p, "Invalid user_id or user is not a siswa")
    /\ UNCHANGED <<tables, seq, now, stats, history, am, cu>>

csCheckKelas(p) ==
    /\ cs[p].pc = "kelas"
    /\ IF csKelasOK(cs[p].kelas_id) THEN csGoto(p, "nisn") ELSE csEnd(p, "Kelas not found")
    /\ UNCHANGED <<tables, seq, now, stats, history, am, cu>>

csCheckNisn(p) ==
    /\ cs[p].pc = "nisn"
    /\ IF csNisnFree(cs[p].nisn) THEN csGoto(p, "insert") ELSE csEnd(p, "NISN already exists")
    /\ UNCHANGED <<tables, seq, now, stats, history, am, cu>>

csInsert(p) ==
    /\ cs[p].pc = "insert"
    /\ seq.siswa <= MaxSiswa
    /\ LET row == [id |-> seq.siswa, user_id |-> cs[p].user_id, nisn |-> cs[p].nisn,
                   kelas_id |-> cs[p].kelas_id]
       IN IF SiswaInsertOK(row)
          THEN /\ siswa' = siswa \cup {row}
               /\ seq' = [seq EXCEPT !.siswa = @ + 1]
               /\ csEnd(p, "ok")
          ELSE /\ csEnd(p, SiswaInsertError(row))
               /\ UNCHANGED <<siswa, seq>>
    /\ UNCHANGED <<users, guru, kelas, absensi, pengajuan, now, stats, history, am, cu>>

(***************************************************************************)
(* Classes and students: createKelas and deleteKelas run between the       *)
(* statements of two concurrent createSiswa requests.  The users are a     *)
(* student and a teacher with a profile.                                   *)
(***************************************************************************)
SiswaSpecUsers ==
    {User(1, "siswa", NULL, NULL, "n", PlainText),
     User(2, "guru", NULL, "x", NULL, PlainText)}
SiswaSpecGuru == {[id |-> 1, user_id |-> 2, nip |-> "x"]}

InitSiswa ==
    /\ users = SiswaSpecUsers
    /\ guru = SiswaSpecGuru
    /\ kelas = {}
    /\ siswa = {}
    /\ absensi = {}
    /\ pengajuan = {}
    /\ seq = NextIds(SiswaSpecUsers, SiswaSpecGuru, {}, {})
    /\ now = 0
    /\ cs = [p \in Procs |-> CsIdle]
    /\ res = Result("init", "", NoId)
    /\ stats = NoStats
    /\ history = NoHistory
    /\ am = [p \in Procs |-> AmIdle]
    /\ cu = [p \in Procs |-> CuIdle]

NextSiswa ==
    \/ \E input \in CreateKelasInputs : createKelas(input)
    \/ \E id \in 1..(MaxKelas + 1) : deleteKelas(id)
    \/ \E p \in Procs, input \in CreateSiswaInputs : csCheckUser(p, input)
    \/ \E p \in Procs : csCheckKelas(p)
    \/ \E p \in Procs : csCheckNisn(p)
    \/ \E p \in Procs : csInsert(p)

SpecSiswa == InitSiswa /\ [][NextSiswa]_vars

(***************************************************************************)
(* C2: deleteKelas(id) on a class that has a student assigned is rejected  *)
(* with 'Cannot delete kelas with assigned students', and the class rows   *)
(* and the student rows stay as they were.                                 *)
(***************************************************************************)
C2_DeleteKelasWithSiswaRejected ==
    [][\A id \in 1..(MaxKelas + 1) :
          (deleteKelas(id) /\ (\E s \in siswa : s.kelas_id = id))
              => /\ res'.msg = "Cannot delete kelas with assigned students"
                 /\ kelas' = kelas
                 /\ siswa' = siswa]_vars

C2_RejectedSeen ==
    /\ res.op = "deleteKelas"
    /\ res.msg = "Cannot delete kelas with assigned students"
    /\ \E s \in siswa : s.kelas_id = res.id
    /\ \E k \in kelas : k.id = res.id

(***************************************************************************)
(* C3: no two student rows hold the same NISN, however the statements of   *)
(* concurrent createSiswa requests interleave; a request that reaches its  *)
(* NISN check or its INSERT while a student holds its NISN ends with an    *)
(* error and adds no row.                                                  *)
(***************************************************************************)
NisnUnique(rows) == \A s1, s2 \in rows : s1.nisn = s2.nisn => s1.id = s2.id

C3_NisnUnique ==
    [][/\ NisnUnique(siswa) /\ NisnUnique(siswa')
       /\ \A p \in Procs :
             ((csCheckNisn(p) \/ csInsert(p)) /\ (\E s \in siswa : s.nisn = cs[p].nisn))
                 => /\ siswa' = siswa
                    /\ cs'[p].pc = "idle"
                    /\ res'.msg \in {"NISN already exists", UniqueViolation, FKViolation}]_vars

\* a request passed its NISN check and was then refused by the unique constraint
C3_RaceSeen ==
    /\ res.op = "createSiswa" /\ res.msg = UniqueViolation
    /\ Cardinality(siswa) >= 1

(***************************************************************************)
(* C4: createSiswa with a kelas_id that references no class is rejected    *)
(* with 'Kelas not found' and inserts no student row.  Stated of each way  *)
(* a request can end.                                                      *)
(***************************************************************************)
C4_Rejected == res'.msg = "Kelas not found" /\ siswa' = siswa

C4_KelasNotFoundAlways ==
    [][/\ \A p \in Procs, input \in CreateSiswaInputs :
             (csCheckUser(p, input) /\ ~csKelasOK(input.kelas_id) /\ cs'[p].pc = "idle")
                 => C4_Rejected
       /\ \A p \in Procs :
             (csCheckKelas(p) /\ ~csKelasOK(cs[p].kelas_id)) => C4_Rejected]_vars

\* amended: stated of a request whose user_id names a user of role 'siswa', at
\* its class lookup; whatever the user_id, no row is inserted by the checks
C4_KelasNotFound ==
    [][/\ \A p \in Procs :
             (csCheckKelas(p) /\ ~(\E k \in kelas : k.id = cs[p].kelas_id))
                 => /\ C4_Rejected
                    /\ cs'[p].pc = "idle"
                    /\ res'.op = "createSiswa"
       /\ \A p \in Procs, input \in CreateSiswaInputs :
             (csCheckUser(p, input) /\ ~(\E k \in kelas : k.id = input.kelas_id))
                 => /\ siswa' = siswa
                    /\ cs'[p].pc = "idle" => res'.msg = "Invalid user_id or user is not a siswa"]_vars

C4_KelasNotFoundSeen ==
    /\ res.op = "createSiswa" /\ res.msg = "Kelas not found"
    /\ \E p \in Procs : cs[p].pc = "idle"

(***************************************************************************)
(* handlers/absensi.ts: createAbsensi                                      *)
(***************************************************************************)
CreateAbsensiInputs ==
    [siswa_id : 1..(MaxSiswa + 1), guru_id : 0..2, kelas_id : 1..(MaxKelas + 1),
     status : attendanceStatusEnum, tanggal : 0..MaxTime]

createAbsensi(input) ==
    /\ seq.absensi <= MaxAbsensi
    /\ LET row == [id |-> seq.absensi, siswa_id |-> input.siswa_id,
                   guru_id |-> input.guru_id, kelas_id |-> input.kelas_id,
                   status |-> input.status, tanggal |-> input.tanggal,
                   waktu_masuk |-> NoTime, waktu_pulang |-> NoTime, keterangan |-> NULL]
       IN IF ~(\E s \in siswa : s.id = input.siswa_id)
          THEN /\ res' = Result("createAbsensi", "Siswa not found", NoId)
               /\ UNCHANGED <<absensi, seq>>
          ELSE IF ~(\E k \in kelas : k.id = input.kelas_id)
          THEN /\ res' = Result("createAbsensi", "Kelas not found", NoId)
               /\ UNCHANGED <<absensi, seq>>
          ELSE IF input.guru_id # NoId /\ ~(\E g \in guru : g.id = input.guru_id)
          THEN /\ res' = Result("createAbsensi", "Guru not found", NoId)
               /\ UNCHANGED <<absensi, seq>>
          ELSE /\ absensi' = absensi \cup {row}
               /\ seq' = [seq EXCEPT !.absensi = @ + 1]
               /\ res' = Result("createAbsensi", "ok", seq.absensi)
    /\ UNCHANGED <<users, guru, kelas, siswa, pengajuan, now, cs, stats, history, am, cu>>

(***************************************************************************)
(* handlers/dashboard.ts: getDashboardStats                                *)
(***************************************************************************)
\* the rows the WHERE of the attendance query selects
absensiHariIni(t) ==
    {a \in absensi : a.tanggal >= Today(t) /\ a.tanggal <= Tomorrow(t)}

\* the count the handler reports for the pending leave requests
pengajuanPendingResult == 0

\* GROUP BY status, count(): a status without rows keeps its 0
attendanceStats(t) ==
    [s \in attendanceStatusEnum |-> Cardinality({a \in absensiHariIni(t) : a.status = s})]

DashboardStats(t) ==
    [hadir |-> attendanceStats(t)["hadir"], izin |-> attendanceStats(t)["izin"],
     sakit |-> attendanceStats(t)["sakit"], alpha |-> attendanceStats(t)["alpha"],
     pengajuan_pending |-> pengajuanPendingResult]

getDashboardStats ==
    /\ stats' = DashboardStats(now)
    /\ res' = Result("getDashboardStats", "ok", NoId)
    /\ UNCHANGED <<tables, seq, now, cs, history, am, cu>>

\* time passes
Tick ==
    /\ now < MaxTime
    /\ now' = now + 1
    /\ UNCHANGED <<tables, seq, cs, res, stats, history, am, cu>>

(***************************************************************************)
(* The dashboard: attendance rows and leave requests over the seeded rows, *)
(* while the clock runs.                                                   *)
(***************************************************************************)
NextDash ==
    \/ \E input \in CreateAbsensiInputs :
          input.guru_id = NoId /\ input.kelas_id = 1 /\ createAbsensi(input)
    \/ \E input \in CreatePengajuanIzinInputs :
          input.tanggal = 0 /\ input.jenis = "izin" /\ createPengajuanIzin(input)
    \/ getDashboardStats
    \/ Tick

SpecDash == InitIzin /\ [][NextDash]_vars

(***************************************************************************)
(* C5: for each status s, absensi_hari_ini[s] of getDashboardStats is the  *)
(* number of attendance rows of status s dated on the current day, from    *)
(* 00:00:00 today up to but not including 00:00:00 tomorrow.               *)
(***************************************************************************)
RowsOfDay(t, s) ==
    {a \in absensi : a.status = s /\ a.tanggal >= Today(t) /\ a.tanggal < Tomorrow(t)}

C5_CountsOfToday ==
    [][getDashboardStats =>
          \A s \in attendanceStatusEnum : stats'[s] = Cardinality(RowsOfDay(now, s))]_vars

(***************************************************************************)
(* C6: pengajuan_pending of getDashboardStats is the number of leave       *)
(* requests whose status is 'pending'.                                     *)
(***************************************************************************)
C6_PendingCount ==
    [][getDashboardStats =>
          stats'.pengajuan_pending =
              Cardinality({p \in pengajuan : p.status = "pending"})]_vars

(***************************************************************************)
(* handlers/user.ts                                                        *)
(***************************************************************************)
\* identifier columns of users: text, nullable, no unique constraint
UserUsernames == {NULL} \cup Usernames
UserNips == {NULL} \cup Nips
UserNisns == {NULL, "n"}

CreateUserInputs ==
    [username : UserUsernames, nip : UserNips, nisn : UserNisns,
     password : {"p"}, role : roleEnum]

\* the rows the uniqueness SELECT of createUser returns: one condition, after the role
createUserExisting(input) ==
    {u \in users :
        \/ input.role = "admin" /\ input.username # NULL /\ u.username = input.username
        \/ input.role = "guru" /\ input.nip # NULL /\ u.nip = input.nip
        \/ input.role = "siswa" /\ input.nisn # NULL /\ u.nisn = input.nisn}

\* the identifier named in the error, from the row found and the input
identifier(existing, input) ==
    IF Truthy(existing.username) /\ existing.username = input.username THEN "Username"
    ELSE IF Truthy(existing.nip) /\ existing.nip = input.nip THEN "NIP"
    ELSE IF Truthy(existing.nisn) /\ existing.nisn = input.nisn THEN "NISN"
    ELSE ""

\* `${identifier} already exists`
AlreadyExists(ident) ==
    CASE ident = "Username" -> "Username already exists"
      [] ident = "NIP" -> "NIP already exists"
      [] ident = "NISN" -> "NISN already exists"
      [] OTHER -> " already exists"

createUser(input, salt) ==
    /\ seq.users <= MaxUsers
    /\ \/ \E existing \in createUserExisting(input) :
             /\ res' = Result("createUser", AlreadyExists(identifier(existing, input)), NoId)
             /\ UNCHANGED <<users, seq>>
       \/ /\ createUserExisting(input) = {}
          /\ users' = users \cup
                 {User(seq.users, input.role, input.username, input.nip, input.nisn,
                       hashPassword(input.password, salt))}
          /\ seq' = [seq EXCEPT !.users = @ + 1]
          /\ res' = Result("createUser", "ok", seq.users)
    /\ UNCHANGED <<guru, kelas, siswa, absensi, pengajuan, now, cs, stats, history, am, cu>>

\* an update names at most two of its optional fields
UpdateUserInputs ==
    {i : i \in
        {input \in [id : 1..(MaxUsers + 1),
                    username : {UNDEF} \cup UserUsernames, nip : {UNDEF} \cup UserNips,
                    nisn : {UNDEF} \cup UserNisns, password : {UNDEF, "q"},
                    role : {UNDEF} \cup roleEnum] :
            Cardinality({f \in {"username", "nip", "nisn", "password", "role"} :
                            input[f] # UNDEF}) <= 2}}

\* the rows the conflict SELECT of updateUser returns, without the user itself
realConflicts(user, input) ==
    {u \in users :
        /\ u.id # input.id
        /\ \/ input.username \notin {UNDEF, user.username, NULL} /\ u.username = input.username
           \/ input.nip \notin {UNDEF, user.nip, NULL} /\ u.nip = input.nip
           \/ input.nisn \notin {UNDEF, user.nisn, NULL} /\ u.nisn = input.nisn}

\* a SET that writes every column, null where the input names none
updateValuesAll(user, input, salt) ==
    [id |-> user.id,
     username |-> IF input.username # UNDEF THEN input.username ELSE NULL,
     nip |-> IF input.nip # UNDEF THEN input.nip ELSE NULL,
     nisn |-> IF input.nisn # UNDEF THEN input.nisn ELSE NULL,
     role |-> IF input.role # UNDEF THEN input.role ELSE user.role,
     password_hash |-> IF input.password # UNDEF THEN hashPassword(input.password, salt)
                       ELSE user.password_hash]

\* the row after SET updateValues
updateValues(user, input, salt) ==
    [id |-> user.id,
     username |-> IF input.username # UNDEF THEN input.username ELSE user.username,
     nip |-> IF input.nip # UNDEF THEN input.nip ELSE user.nip,
     nisn |-> IF input.nisn # UNDEF THEN input.nisn ELSE user.nisn,
     role |-> IF input.role # UNDEF THEN input.role ELSE user.role,
     password_hash |-> IF input.password # UNDEF THEN hashPassword(input.password, salt)
                       ELSE user.password_hash]

updateUser(input, salt) ==
    /\ IF ~(\E u \in users : u.id = input.id)
       THEN /\ res' = Result("updateUser", "User not found", input.id)
            /\ UNCHANGED users
       ELSE LET user == Row(users, input.id)
            IN \/ \E conflict \in realConflicts(user, input) :
                     /\ res' = Result("updateUser",
                                      AlreadyExists(identifier(conflict, input)), input.id)
                     /\ UNCHANGED users
               \/ /\ realConflicts(user, input) = {}
                  /\ users' = (users \ {user}) \cup {updateValues(user, input, salt)}
                  /\ res' = Result("updateUser", "ok", input.id)
    /\ UNCHANGED <<guru, kelas, siswa, absensi, pengajuan, seq, now, cs, stats, history, am, cu>>

\* DELETE FROM users: siswa.user_id and guru.user_id cascade, and from a deleted
\* siswa absensi.siswa_id and pengajuan_izin.siswa_id; absensi.guru_id and
\* pengajuan_izin.reviewer_id are set null
deleteUser(id) ==
    /\ IF ~(\E u \in users : u.id = id)
       THEN /\ res' = Result("deleteUser", "User not found", id)
            /\ UNCHANGED tables
       ELSE LET goneSiswa == {s.id : s \in {t \in siswa : t.user_id = id}}
                goneGuru == {g.id : g \in {t \in guru : t.user_id = id}}
            IN /\ users' = {u \in users : u.id # id}
               /\ siswa' = {s \in siswa : s.user_id # id}
               /\ guru' = {g \in guru : g.user_id # id}
               /\ absensi' = {IF a.guru_id \in goneGuru THEN [a EXCEPT !.guru_id = NoId] ELSE a :
                                 a \in {b \in absensi : b.siswa_id \notin goneSiswa}}
               /\ pengajuan' = {IF q.reviewer_id = id THEN [q EXCEPT !.reviewer_id = NoId] ELSE q :
                                   q \in {b \in pengajuan : b.siswa_id \notin goneSiswa}}
               /\ UNCHANGED kelas
               /\ res' = Result("deleteUser", "User deleted successfully", id)
    /\ UNCHANGED <<seq, now, cs, stats, history, am, cu>>

(***************************************************************************)
(* handlers/auth.ts: login                                                 *)
(***************************************************************************)
LoginInputs ==
    [role : roleEnum, username : {UNDEF, "", "a"}, nip : {UNDEF, "x"},
     nisn : {UNDEF, "n"}, password : Passwords]

\* the identifier login reads for the role
loginIdentifier(input) ==
    CASE input.role = "admin" -> input.username
      [] input.role = "guru" -> input.nip
      [] OTHER -> input.nisn

loginRequired(role) ==
    CASE role = "admin" -> "Username is required for admin login"
      [] role = "guru" -> "NIP is required for guru login"
      [] OTHER -> "NISN is required for siswa login"

\* a lookup by the identifier alone, whatever the role of the row
whereIdentifierOnly(u, input) ==
    \/ input.role = "admin" /\ u.username = input.username
    \/ input.role = "guru" /\ u.nip = input.nip
    \/ input.role = "siswa" /\ u.nisn = input.nisn

\* whereCondition: the role and the identifier of that role
whereCondition(u, input) ==
    \/ input.role = "admin" /\ u.role = "admin" /\ u.username = input.username
    \/ input.role = "guru" /\ u.role = "guru" /\ u.nip = input.nip
    \/ input.role = "siswa" /\ u.role = "siswa" /\ u.nisn = input.nisn

login(input) ==
    /\ IF ~Truthy(loginIdentifier(input))
       THEN res' = Result("login", loginRequired(input.role), NoId)
       ELSE IF {u \in users : whereCondition(u, input)} = {}
       THEN res' = Result("login", "User not found", NoId)
       ELSE \E user \in {u \in users : whereCondition(u, input)} :
               LET stored == BufferFromHex(user.password_hash)
                   hashedInput == BufferFromHex(Sha256Hex(input.password))
               IN IF timingSafeEqualThrows(stored, hashedInput)
                  THEN res' = Result("login", RangeError, NoId)
                  ELSE IF ~timingSafeEqual(stored, hashedInput)
                  THEN res' = Result("login", "Invalid password", NoId)
                  ELSE res' = Result("login", "Login successful", user.id)
    /\ UNCHANGED <<tables, seq, now, cs, stats, history, am, cu>>

(***************************************************************************)
(* User administration: createUser, updateUser and deleteUser, one at a    *)
(* time, from an empty users table.                                        *)
(***************************************************************************)
InitUser ==
    /\ users = {}
    /\ guru = {}
    /\ kelas = {}
    /\ siswa = {}
    /\ absensi = {}
    /\ pengajuan = {}
    /\ seq = NextIds({}, {}, {}, {})
    /\ now = 0
    /\ cs = [p \in Procs |-> CsIdle]
    /\ res = Result("init", "", NoId)
    /\ stats = NoStats
    /\ history = NoHistory
    /\ am = [p \in Procs |-> AmIdle]
    /\ cu = [p \in Procs |-> CuIdle]

NextUser ==
    \/ \E input \in CreateUserInputs, salt \in Salts : createUser(input, salt)
    \/ \E input \in UpdateUserInputs, salt \in Salts : updateUser(input, salt)
    \/ \E id \in 1..(MaxUsers + 1) : deleteUser(id)

SpecUser == InitUser /\ [][NextUser]_vars

(***************************************************************************)
(* Authentication: login against a users table that holds one seeded row   *)
(* (an administrator whose password_hash is a SHA-256 digest, as           *)
(* tests/auth.test.ts seeds it, or a teacher whose password_hash is the    *)
(* text 'hashed_password' of the other fixtures) and the rows createUser   *)
(* adds.                                                                   *)
(***************************************************************************)
AuthSeeds ==
    {User(1, "admin", "a", "x", "n", Sha256Hex("p")),
     User(1, "guru", NULL, "x", NULL, PlainText)}

InitLogin ==
    /\ \E seed \in AuthSeeds : users = {seed}
    /\ guru = {}
    /\ kelas = {}
    /\ siswa = {}
    /\ absensi = {}
    /\ pengajuan = {}
    /\ seq = [NextIds({}, {}, {}, {}) EXCEPT !.users = 2]
    /\ now = 0
    /\ cs = [p \in Procs |-> CsIdle]
    /\ res = Result("init", "", NoId)
    /\ stats = NoStats
    /\ history = NoHistory
    /\ am = [p \in Procs |-> AmIdle]
    /\ cu = [p \in Procs |-> CuIdle]

NextLogin ==
    \/ \E input \in CreateUserInputs, salt \in Salts : createUser(input, salt)
    \/ \E input \in LoginInputs : login(input)

SpecLogin == InitLogin /\ [][NextLogin]_vars

\* the identifier column of a users row that login reads for a role
identifierOf(u, role) ==
    CASE role = "admin" -> u.username
      [] role = "guru" -> u.nip
      [] OTHER -> u.nisn

\* the supplied identifier is held by some user, and by no user of the role
HeldByOtherRoleOnly(input) ==
    /\ \E u \in users : u.role # input.role
                        /\ identifierOf(u, input.role) = loginIdentifier(input)
    /\ ~(\E u \in users : u.role = input.role
                          /\ identifierOf(u, input.role) = loginIdentifier(input))

\* login succeeds only for a row of the role that holds the identifier
C7_SuccessOnlyIfMatch(input) ==
    res'.msg = "Login successful"
        => \E u \in users : /\ u.id = res'.id /\ u.role = input.role
                            /\ identifierOf(u, input.role) = loginIdentifier(input)

(***************************************************************************)
(* C7 as stated: login succeeds only if a row of the role holds the        *)
(* supplied identifier, and whenever the supplied identifier value is held *)
(* only by a user of another role, login answers 'User not found'.         *)
(***************************************************************************)
C7_LoginByRoleAnyIdentifier ==
    [][\A input \in LoginInputs :
          login(input)
              => /\ C7_SuccessOnlyIfMatch(input)
                 /\ (loginIdentifier(input) # UNDEF /\ HeldByOtherRoleOnly(input))
                        => res'.msg = "User not found"]_vars

(***************************************************************************)
(* C7: login succeeds only if a row of the role holds the supplied         *)
(* identifier, and whenever a non-empty supplied identifier is held only   *)
(* by a user of another role, login answers 'User not found' (an empty     *)
(* identifier is answered with '... is required for ... login').           *)
(***************************************************************************)
C7_LoginByRole ==
    [][\A input \in LoginInputs :
          login(input)
              => /\ C7_SuccessOnlyIfMatch(input)
                 /\ (Truthy(loginIdentifier(input)) /\ HeldByOtherRoleOnly(input))
                        => res'.msg = "User not found"]_vars

\* login has answered 'User not found' where only an administrator exists, who
\* holds every identifier a login can supply: the identifier was asked for
\* under another role
C7_RoleMismatchSeen ==
    /\ res.op = "login" /\ res.msg = "User not found"
    /\ users # {}
    /\ \A u \in users : u.role = "admin" /\ u.username = "a" /\ u.nip = "x" /\ u.nisn = "n"

\* the supplied password is the one the stored hash was computed from
Corresponds(hash, password) == hash.alg \in {"sha256", "pbkdf2"} /\ hash.pw = password

(***************************************************************************)
(* C8: when login matches a user by role and identifier and the supplied   *)
(* password does not correspond to the stored password_hash, login returns *)
(* 'Invalid password': it does not throw and does not succeed, whatever    *)
(* the form of the stored hash.                                            *)
(***************************************************************************)
C8_WrongPasswordInvalid ==
    [][\A input \in LoginInputs :
          (/\ login(input)
           /\ Truthy(loginIdentifier(input))
           /\ \E u \in users : whereCondition(u, input)
           /\ \A u \in users : whereCondition(u, input)
                                   => ~Corresponds(u.password_hash, input.password))
              => res'.msg = "Invalid password"]_vars

\* the identifier createUser checks for the role of the input
createIdentifier(input) ==
    CASE input.role = "admin" -> input.username
      [] input.role = "guru" -> input.nip
      [] OTHER -> input.nisn

\* the message the role's identifier is to be rejected with
DuplicateMessage(role) ==
    CASE role = "admin" -> "Username already exists"
      [] role = "guru" -> "NIP already exists"
      [] OTHER -> "NISN already exists"

(***************************************************************************)
(* C9: createUser whose identifier for its role (username for admin, nip   *)
(* for guru, nisn for siswa) equals that identifier of an existing user is *)
(* rejected with 'Username already exists', 'NIP already exists' or 'NISN  *)
(* already exists' respectively, and inserts no row.                       *)
(***************************************************************************)
C9_DuplicateRejected ==
    [][\A input \in CreateUserInputs, salt \in Salts :
          (/\ createUser(input, salt)
           /\ createIdentifier(input) # NULL
           /\ \E u \in users : identifierOf(u, input.role) = createIdentifier(input))
              => /\ res'.msg = DuplicateMessage(input.role)
                 /\ users' = users]_vars

(***************************************************************************)
(* C10: in every state reached through createUser, updateUser and          *)
(* deleteUser, no two user rows share a non-null username, a non-null nip  *)
(* or a non-null nisn, whatever their roles.                               *)
(***************************************************************************)
C10_IdentifiersUnique ==
    \A u, v \in users :
        u.id # v.id
            => /\ u.username = NULL \/ u.username # v.username
               /\ u.nip = NULL \/ u.nip # v.nip
               /\ u.nisn = NULL \/ u.nisn # v.nisn

(***************************************************************************)
(* handlers/guru.ts and updateKelas of handlers/kelas.ts                   *)
(***************************************************************************)
GuruNips == {"x", "y"}
CreateGuruInputs == [user_id : 1..(MaxUsers + 1), nip : GuruNips]

\* a profile lookup by user_id that finds nothing
existingGuruNone(user_id) == {}

\* the SELECT of createGuru by user_id
existingGuru(user_id) == {g \in guru : g.user_id = user_id}

\* the SELECT of createGuru by nip
existingNip(nip) == {g \in guru : g.nip = nip}

createGuru(input) ==
    /\ seq.guru <= MaxGuru
    /\ IF ~(\E u \in users : u.id = input.user_id)
       THEN /\ res' = Result("createGuru", "User not found", NoId)
            /\ UNCHANGED <<guru, seq>>
       ELSE IF Row(users, input.user_id).role # "guru"
       THEN /\ res' = Result("createGuru", "User must have guru role", NoId)
            /\ UNCHANGED <<guru, seq>>
       ELSE IF existingGuru(input.user_id) # {}
       THEN /\ res' = Result("createGuru", "Guru profile already exists for this user", NoId)
            /\ UNCHANGED <<guru, seq>>
       ELSE IF existingNip(input.nip) # {}
       THEN /\ res' = Result("createGuru", "NIP already exists", NoId)
            /\ UNCHANGED <<guru, seq>>
       ELSE /\ guru' = guru \cup {[id |-> seq.guru, user_id |-> input.user_id,
                                   nip |-> input.nip]}
            /\ seq' = [seq EXCEPT !.guru = @ + 1]
            /\ res' = Result("createGuru", "ok", seq.guru)
    /\ UNCHANGED <<users, kelas, siswa, absensi, pengajuan, now, cs, stats, history, am, cu>>

\* DELETE FROM guru: absensi.guru_id is set null; kelas.wali_kelas_id is no
\* foreign key and keeps its value
deleteGuru(id) ==
    /\ IF ~(\E g \in guru : g.id = id)
       THEN /\ res' = Result("deleteGuru", "Guru not found", id)
            /\ UNCHANGED <<guru, absensi>>
       ELSE /\ guru' = {g \in guru : g.id # id}
            /\ absensi' = {IF a.guru_id = id THEN [a EXCEPT !.guru_id = NoId] ELSE a :
                              a \in absensi}
            /\ res' = Result("deleteGuru", "Guru deleted successfully", id)
    /\ UNCHANGED <<users, kelas, siswa, pengajuan, seq, now, cs, stats, history, am, cu>>

\* wali_kelas_id NoId: the field is absent from the input
UpdateKelasInputs == [id : 1..(MaxKelas + 1), wali_kelas_id : 0..(MaxGuru + 1)]

updateKelas(input) ==
    /\ IF input.wali_kelas_id # NoId /\ ~(\E g \in guru : g.id = input.wali_kelas_id)
       THEN /\ res' = Result("updateKelas", "Wali kelas (guru) not found", input.id)
            /\ UNCHANGED kelas
       ELSE IF ~(\E k \in kelas : k.id = input.id)
       THEN /\ res' = Result("updateKelas", "Kelas not found", input.id)
            /\ UNCHANGED kelas
       ELSE /\ kelas' = {IF k.id = input.id /\ input.wali_kelas_id # NoId
                         THEN [k EXCEPT !.wali_kelas_id = input.wali_kelas_id] ELSE k :
                            k \in kelas}
            /\ res' = Result("updateKelas", "ok", input.id)
    /\ UNCHANGED <<users, guru, siswa, absensi, pengajuan, seq, now, cs, stats, history, am, cu>>

(***************************************************************************)
(* Teachers and classes: createGuru, deleteGuru, createKelas, updateKelas  *)
(* and deleteKelas, one at a time, over two teacher users whose role an    *)
(* updateUser may change.                                                  *)
(***************************************************************************)
GuruSpecUsers ==
    {User(1, "guru", NULL, "x", NULL, PlainText),
     User(2, "guru", NULL, "y", NULL, PlainText)}

\* an updateUser that names the role alone
RoleOnly(input) ==
    /\ input.username = UNDEF /\ input.nip = UNDEF /\ input.nisn = UNDEF
    /\ input.password = UNDEF /\ input.role \in {"guru", "admin"}

InitGuru ==
    /\ users = GuruSpecUsers
    /\ guru = {}
    /\ kelas = {}
    /\ siswa = {}
    /\ absensi = {}
    /\ pengajuan = {}
    /\ seq = NextIds(GuruSpecUsers, {}, {}, {})
    /\ now = 0
    /\ cs = [p \in Procs |-> CsIdle]
    /\ res = Result("init", "", NoId)
    /\ stats = NoStats
    /\ history = NoHistory
    /\ am = [p \in Procs |-> AmIdle]
    /\ cu = [p \in Procs |-> CuIdle]

NextGuru ==
    \/ \E input \in CreateGuruInputs : createGuru(input)
    \/ \E id \in 1..(MaxGuru + 1) : deleteGuru(id)
    \/ \E input \in CreateKelasInputs : createKelas(input)
    \/ \E input \in UpdateKelasInputs : updateKelas(input)
    \/ \E id \in 1..(MaxKelas + 1) : deleteKelas(id)
    \/ \E input \in UpdateUserInputs, salt \in Salts :
          RoleOnly(input) /\ updateUser(input, salt)

SpecGuru == InitGuru /\ [][NextGuru]_vars

(***************************************************************************)
(* C11: in every state reached through createGuru, deleteGuru,             *)
(* createKelas, updateKelas and deleteKelas, the wali_kelas_id of every    *)
(* class row is the id of an existing teacher row.                         *)
(***************************************************************************)
C11_WaliKelasExists == \A k \in kelas : k.wali_kelas_id \in Ids(guru)

\* each user is linked to at most one teacher profile
OneProfilePerUser(rows) == \A g, h \in rows : g.user_id = h.user_id => g.id = h.id

ConflictFields(input) ==
    {f \in {"username", "nip", "nisn"} :
        /\ input[f] \notin {UNDEF, NULL}
        /\ \E u \in users : u.id # input.id /\ u[f] = input[f]}

FieldMessage(f) ==
    CASE f = "username" -> "Username already exists"
      [] f = "nip" -> "NIP already exists"
      [] OTHER -> "NISN already exists"

(***************************************************************************)
(* C12: updateUser that sets username, nip or nisn to a non-null value a   *)
(* different user holds is rejected with the 'already exists' message of   *)
(* such a field, updateUser on an id with no row is rejected with 'User    *)
(* not found', and in both cases the users table is unchanged.             *)
(***************************************************************************)
C12_UpdateRejected ==
    [][\A input \in UpdateUserInputs, salt \in Salts :
          updateUser(input, salt)
              => /\ (input.id \in Ids(users) /\ ConflictFields(input) # {})
                        => /\ res'.msg \in {FieldMessage(f) : f \in ConflictFields(input)}
                           /\ users' = users
                 /\ input.id \notin Ids(users)
                        => res'.msg = "User not found" /\ users' = users]_vars

\* the value a successful update leaves in field f of the row
UpdatedField(old, input, salt, f) ==
    IF f = "password_hash"
    THEN IF input.password # UNDEF THEN hashPassword(input.password, salt)
         ELSE old.password_hash
    ELSE IF input[f] # UNDEF THEN input[f] ELSE old[f]

(***************************************************************************)
(* Updates of the users table: updateUser and deleteUser, one at a time,   *)
(* over the two rows the update tests create (a teacher with a nip, an     *)
(* administrator with a username).                                         *)
(***************************************************************************)
UpdateSpecUsers ==
    {User(1, "guru", NULL, "x", NULL, hashPassword("p", "s1")),
     User(2, "admin", "a", NULL, NULL, hashPassword("p", "s1"))}

InitUpdate ==
    /\ users = UpdateSpecUsers
    /\ guru = {}
    /\ kelas = {}
    /\ siswa = {}
    /\ absensi = {}
    /\ pengajuan = {}
    /\ seq = NextIds(UpdateSpecUsers, {}, {}, {})
    /\ now = 0
    /\ cs = [p \in Procs |-> CsIdle]
    /\ res = Result("init", "", NoId)
    /\ stats = NoStats
    /\ history = NoHistory
    /\ am = [p \in Procs |-> AmIdle]
    /\ cu = [p \in Procs |-> CuIdle]

\* the updates of the update tests: a field is absent, cleared or set to the
\* value in use
FrameInputs ==
    {i : i \in
        {input \in UpdateUserInputs :
            /\ input.username \in {UNDEF, NULL, "a"}
            /\ input.nisn \in {UNDEF, "n"}
            /\ input.role \in {UNDEF, "siswa"}}}

NextUpdate ==
    \/ \E input \in FrameInputs, salt \in Salts : updateUser(input, salt)
    \/ \E id \in 1..(MaxUsers + 1) : deleteUser(id)

SpecUpdate == InitUpdate /\ [][NextUpdate]_vars

(***************************************************************************)
(* C13: a successful updateUser writes the fields its input names          *)
(* (username, nip, nisn, role, and password_hash when a password is given) *)
(* into the row of its id; every field the input does not name keeps its   *)
(* value, and every other row stays as it was.                             *)
(***************************************************************************)
C13_UpdateFrame ==
    [][(res'.op = "updateUser" /\ res'.msg = "ok")
          => \A input \in FrameInputs, salt \in Salts :
                (input.id = res'.id /\ updateUser(input, salt))
                    => /\ Ids(users') = Ids(users)
                       /\ \A u \in users : u.id # input.id => u \in users'
                       /\ Cardinality(users') = Cardinality(users)
                       /\ LET old == Row(users, input.id)
                              new == Row(users', input.id)
                          IN /\ new.id = old.id
                             /\ \A f \in {"username", "nip", "nisn", "role",
                                          "password_hash"} :
                                   new[f] = UpdatedField(old, input, salt, f)]_vars

\* an update has succeeded on one of two rows, and the row keeps an identifier
\* next to a password_hash the update wrote
C13_PartialUpdateSeen ==
    /\ res.op = "updateUser" /\ res.msg = "ok"
    /\ Cardinality(users) = 2
    /\ \E u \in users : /\ u.id = res.id
                        /\ u.password_hash = hashPassword("q", "s1")
                        /\ u.nip = "x"

(***************************************************************************)
(* C15: createSiswa whose user_id references no user, or a user whose role *)
(* is not 'siswa', is rejected with 'Invalid user_id or user is not a      *)
(* siswa': the request ends at its first check and no student row is       *)
(* inserted.                                                               *)
(***************************************************************************)
C15_InvalidUserRejected ==
    [][\A p \in Procs, input \in CreateSiswaInputs :
          (/\ csCheckUser(p, input)
           /\ \/ input.user_id \notin Ids(users)
              \/ Row(users, input.user_id).role # "siswa")
              => /\ res'.op = "createSiswa"
                 /\ res'.msg = "Invalid user_id or user is not a siswa"
                 /\ cs'[p].pc = "idle"
                 /\ siswa' = siswa]_vars

\* a createSiswa has been refused for its user_id where a user of another role
\* exists
C15_InvalidUserSeen ==
    /\ res.op = "createSiswa" /\ res.msg = "Invalid user_id or user is not a siswa"
    /\ \E u \in users : u.role # "siswa"

(***************************************************************************)
(* handlers/absensi.ts: absenMasuk and absenPulang                         *)
(***************************************************************************)
AbsenInputs == [siswa_id : 1..(MaxSiswa + 1)]

\* the SELECT of absenMasuk and absenPulang: the student's rows with
\* tanggal >= today AND tanggal <= tomorrow
existingAbsensi(siswa_id, t) ==
    {a \in absensi : /\ a.siswa_id = siswa_id
                     /\ a.tanggal >= Today(t)
                     /\ a.tanggal <= Tomorrow(t)}

\* existingAbsensi[0] is any row of the SELECT: it has no ORDER BY
absenMasuk(input) ==
    /\ IF ~(\E s \in siswa : s.id = input.siswa_id)
       THEN /\ res' = Result("absenMasuk", "Siswa not found", NoId)
            /\ UNCHANGED <<absensi, seq>>
       ELSE IF existingAbsensi(input.siswa_id, now) # {}
       THEN \E e \in existingAbsensi(input.siswa_id, now) :
               /\ absensi' = (absensi \ {e}) \cup
                      {[e EXCEPT !.waktu_masuk = now, !.status = "hadir"]}
               /\ res' = Result("absenMasuk", "ok", e.id)
               /\ UNCHANGED seq
       ELSE /\ seq.absensi <= MaxAbsensi
            /\ absensi' = absensi \cup
                   {[id |-> seq.absensi, siswa_id |-> input.siswa_id, guru_id |-> NoId,
                     kelas_id |-> Row(siswa, input.siswa_id).kelas_id,
                     status |-> "hadir", tanggal |-> now, waktu_masuk |-> now,
                     waktu_pulang |-> NoTime, keterangan |-> NULL]}
            /\ seq' = [seq EXCEPT !.absensi = @ + 1]
            /\ res' = Result("absenMasuk", "ok", seq.absensi)
    /\ UNCHANGED <<users, guru, kelas, siswa, pengajuan, now, cs, stats, history, am, cu>>

NoAbsensiToday == "No absensi entry found for today. Please absen masuk first."

absenPulang(input) ==
    /\ IF existingAbsensi(input.siswa_id, now) = {}
       THEN /\ res' = Result("absenPulang", NoAbsensiToday, NoId)
            /\ UNCHANGED absensi
       ELSE \E e \in existingAbsensi(input.siswa_id, now) :
               /\ absensi' = (absensi \ {e}) \cup {[e EXCEPT !.waktu_pulang = now]}
               /\ res' = Result("absenPulang", "ok", e.id)
    /\ UNCHANGED <<users, guru, kelas, siswa, pengajuan, seq, now, cs, stats, history, am, cu>>

(***************************************************************************)
(* Daily attendance: the seeded student checks in and out while the clock  *)
(* runs, next to attendance rows a teacher records for any date.           *)
(***************************************************************************)
NextAbsen ==
    \/ \E input \in CreateAbsensiInputs :
          /\ input.guru_id = NoId /\ input.kelas_id = 1 /\ input.status = "izin"
          /\ createAbsensi(input)
    \/ \E input \in AbsenInputs : absenMasuk(input)
    \/ \E input \in AbsenInputs : absenPulang(input)
    \/ Tick

SpecAbsen == InitIzin /\ [][NextAbsen]_vars

\* the rows of a student dated on the calendar day of t: from 00:00 of the day
\* up to, not including, 00:00 of the next
StudentDayRows(rows, siswa_id, t) ==
    {a \in rows : /\ a.siswa_id = siswa_id
                  /\ a.tanggal >= Today(t)
                  /\ a.tanggal < Tomorrow(t)}

(***************************************************************************)
(* C16: when a student has at most one attendance row today, after an      *)
(* absenMasuk for the student exactly one row of the student is dated      *)
(* today, with status 'hadir' and a waktu_masuk; the call inserts the row  *)
(* if there was none and updates the existing row otherwise.  (The state   *)
(* after a call satisfies the condition again, so this covers any number   *)
(* of calls on the day.)                                                   *)
(***************************************************************************)
C16_OneRowPerDay ==
    [][\A input \in AbsenInputs :
          (/\ absenMasuk(input)
           /\ input.siswa_id \in Ids(siswa)
           /\ Cardinality(StudentDayRows(absensi, input.siswa_id, now)) <= 1)
              => /\ Cardinality(StudentDayRows(absensi', input.siswa_id, now)) = 1
                 /\ \A a \in StudentDayRows(absensi', input.siswa_id, now) :
                       a.status = "hadir" /\ a.waktu_masuk # NoTime
                 /\ StudentDayRows(absensi, input.siswa_id, now) # {}
                       => Ids(absensi') = Ids(absensi)
                 /\ StudentDayRows(absensi, input.siswa_id, now) = {}
                       => Ids(absensi') = Ids(absensi) \cup {seq.absensi}]_vars

(***************************************************************************)
(* C17: absenPulang for a student who has no attendance row dated today is *)
(* rejected with 'No absensi entry found for today. Please absen masuk     *)
(* first.' and every attendance row stays as it was.                       *)
(***************************************************************************)
C17_PulangWithoutMasuk ==
    [][\A input \in AbsenInputs :
          (absenPulang(input) /\ StudentDayRows(absensi, input.siswa_id, now) = {})
              => res'.msg = NoAbsensiToday /\ absensi' = absensi]_vars

(***************************************************************************)
(* C18: a successful absenPulang sets waktu_pulang on exactly one of the   *)
(* student's attendance rows for today; the other fields of that row and   *)
(* all other attendance rows stay as they were.                            *)
(***************************************************************************)
C18_PulangFrame ==
    [][\A input \in AbsenInputs :
          (absenPulang(input) /\ res'.msg = "ok")
              => \E a \in StudentDayRows(absensi, input.siswa_id, now) :
                    \E w \in 0..MaxTime :
                       absensi' = (absensi \ {a}) \cup {[a EXCEPT !.waktu_pulang = w]}]_vars

(***************************************************************************)
(* handlers/absensi.ts: getAbsensiHistory                                  *)
(***************************************************************************)
\* siswa_id, kelas_id NoId and start_date, end_date NoTime: the filter is absent
GetAbsensiHistoryInputs ==
    [siswa_id : {NoId, 1}, kelas_id : {NoId, 2}, start_date : {NoTime, 1},
     end_date : {NoTime, 2}, limit : 0..MaxAbsensi, offset : 0..1]

\* a date filter that leaves the bound itself out
conditionsExclusive(a, input) ==
    /\ input.siswa_id # NoId => a.siswa_id = input.siswa_id
    /\ input.kelas_id # NoId => a.kelas_id = input.kelas_id
    /\ input.start_date # NoTime => a.tanggal > input.start_date
    /\ input.end_date # NoTime => a.tanggal < input.end_date

\* and(...conditions): one condition per filter the input names
conditions(a, input) ==
    /\ input.siswa_id # NoId => a.siswa_id = input.siswa_id
    /\ input.kelas_id # NoId => a.kelas_id = input.kelas_id
    /\ input.start_date # NoTime => a.tanggal >= input.start_date
    /\ input.end_date # NoTime => a.tanggal <= input.end_date

\* ORDER BY tanggal DESC: the orders of the rows the database may produce (rows
\* of one tanggal come in any order)
orderByDesc(rows) ==
    {s \in [1..Cardinality(rows) -> rows] :
        /\ \A i, j \in 1..Cardinality(rows) : i # j => s[i] # s[j]
        /\ \A i, j \in 1..Cardinality(rows) : i < j => s[i].tanggal >= s[j].tanggal}

Min(a, b) == IF a <= b THEN a ELSE b

\* OFFSET offset LIMIT limit
limitOffset(s, limit, offset) == SubSeq(s, offset + 1, Min(Len(s), offset + limit))

getAbsensiHistory(input) ==
    /\ \E s \in orderByDesc({a \in absensi : conditions(a, input)}) :
          history' = [input |-> input, rows |-> limitOffset(s, input.limit, input.offset)]
    /\ res' = Result("getAbsensiHistory", "ok", NoId)
    /\ UNCHANGED <<tables, seq, now, cs, stats, am, cu>>

(***************************************************************************)
(* Attendance history: queries over the attendance rows recorded for two   *)
(* students, one in each class.                                            *)
(***************************************************************************)
HistoryUsers == FixtureUsers \cup {User(4, "siswa", NULL, NULL, "m", PlainText)}
HistorySiswa == FixtureSiswa \cup {[id |-> 2, user_id |-> 4, nisn |-> "m", kelas_id |-> 2]}

InitHistory ==
    /\ users = HistoryUsers
    /\ guru = FixtureGuru
    /\ kelas = FixtureKelas
    /\ siswa = HistorySiswa
    /\ absensi = {}
    /\ pengajuan = {}
    /\ seq = NextIds(HistoryUsers, FixtureGuru, FixtureKelas, HistorySiswa)
    /\ now = 0
    /\ cs = [p \in Procs |-> CsIdle]
    /\ res = Result("init", "", NoId)
    /\ stats = NoStats
    /\ history = NoHistory
    /\ am = [p \in Procs |-> AmIdle]
    /\ cu = [p \in Procs |-> CuIdle]

\* a behaviour records attendance and ends with one query: a query changes no
\* table, so a query after it sees the rows it saw
NextHistory ==
    /\ history = NoHistory
    /\ am = [p \in Procs |-> AmIdle]
    /\ cu = [p \in Procs |-> CuIdle]
    /\ \/ \E input \in CreateAbsensiInputs :
             /\ input.guru_id = NoId /\ input.status = "hadir"
             /\ input.siswa_id \in Ids(siswa)
             /\ input.kelas_id = Row(siswa, input.siswa_id).kelas_id
             /\ createAbsensi(input)
       \/ \E input \in GetAbsensiHistoryInputs : getAbsensiHistory(input)

SpecHistory == InitHistory /\ [][NextHistory]_vars

\* the attendance rows that satisfy every filter the input supplies
Matching(rows, input) ==
    {a \in rows :
        /\ input.siswa_id = NoId \/ a.siswa_id = input.siswa_id
        /\ input.kelas_id = NoId \/ a.kelas_id = input.kelas_id
        /\ input.start_date = NoTime \/ a.tanggal >= input.start_date
        /\ input.end_date = NoTime \/ a.tanggal <= input.end_date}

\* the rows of M that come before every row dated d, and up to the rows dated d
Before(M, d) == Cardinality({a \in M : a.tanggal > d})
UpTo(M, d) == Cardinality({a \in M : a.tanggal >= d})

\* h is a page of M: limit rows (or what is left) after the first offset, rows of
\* M without repetition, by tanggal descending, and each at a position that its
\* tanggal allows among the rows of M
IsPage(h, M, limit, offset) ==
    /\ Len(h) = Min(limit, IF Cardinality(M) > offset THEN Cardinality(M) - offset ELSE 0)
    /\ \A i \in 1..Len(h) : h[i] \in M
    /\ \A i, j \in 1..Len(h) : i # j => h[i] # h[j]
    /\ \A i, j \in 1..Len(h) : i < j => h[i].tanggal >= h[j].tanggal
    /\ \A i \in 1..Len(h) : /\ Before(M, h[i].tanggal) < offset + i
                            /\ offset + i <= UpTo(M, h[i].tanggal)

(***************************************************************************)
(* C19: getAbsensiHistory returns the attendance rows that satisfy all     *)
(* supplied filters (siswa_id, kelas_id equal, tanggal >= start_date,      *)
(* tanggal <= end_date), by tanggal descending, after skipping offset rows *)
(* and cut to at most limit rows, and it modifies no row.                  *)
(***************************************************************************)
C19_HistoryPage ==
    [][res'.op = "getAbsensiHistory"
          => /\ IsPage(history'.rows, Matching(absensi, history'.input),
                       history'.input.limit, history'.input.offset)
             /\ tables' = tables]_vars

\* a history has been returned under a student filter and both date filters:
\* the one row that matches, while a row of the student dated after end_date
\* exists
C19_FilteredPageSeen ==
    /\ res.op = "getAbsensiHistory"
    /\ history.input.siswa_id = 1 /\ history.input.start_date = 1
    /\ history.input.end_date = 2 /\ history.input.offset = 0
    /\ Len(history.rows) = 1
    /\ Cardinality(Matching(absensi, history.input)) = 1
    /\ \E a \in absensi : a.siswa_id = 1 /\ a.tanggal > 2

(***************************************************************************)
(* Classes under attendance: the seeded classes are deleted while          *)
(* attendance is recorded and the seeded student changes class.            *)
(***************************************************************************)
NextKelas ==
    \/ \E id \in 1..(MaxKelas + 1) : deleteKelas(id)
    \/ \E input \in UpdateSiswaInputs : updateSiswa(input)
    \/ \E input \in CreateAbsensiInputs :
          /\ input.guru_id = NoId /\ input.status = "hadir" /\ input.tanggal = 0
          /\ createAbsensi(input)

SpecKelas == InitIzin /\ [][NextKelas]_vars

(***************************************************************************)
(* C20: deleteKelas(id) on an existing class that has no student assigned  *)
(* succeeds with 'Kelas deleted successfully' and leaves no class row of   *)
(* that id, also when attendance rows reference the class.                 *)
(***************************************************************************)
C20_DeleteEmptyKelas ==
    [][\A id \in 1..(MaxKelas + 1) :
          (/\ deleteKelas(id)
           /\ id \in Ids(kelas)
           /\ ~(\E s \in siswa : s.kelas_id = id))
              => /\ res'.msg = "Kelas deleted successfully"
                 /\ id \notin Ids(kelas')]_vars

(***************************************************************************)
(* Reviews: leave requests of the seeded student for one date are filed    *)
(* and reviewed, any number of times, by a reviewer id that names a user   *)
(* and a teacher (1), a user and no teacher (2) or neither (4).            *)
(***************************************************************************)
NextReview ==
    \/ \E input \in CreatePengajuanIzinInputs :
          input.tanggal = 0 /\ createPengajuanIzin(input)
    \/ \E input \in ReviewPengajuanIzinInputs :
          input.reviewer_id \in {1, 2, 4} /\ reviewPengajuanIzin(input)

SpecReview == InitIzin /\ [][NextReview]_vars

(***************************************************************************)
(* C21: createPengajuanIzin for an existing student adds exactly one leave *)
(* request, of that student, date and jenis, with status pending and       *)
(* reviewer_id and reviewed_at null, and changes no other request; for a   *)
(* siswa_id that names no student it is rejected with 'Siswa not found'    *)
(* and the requests are unchanged.                                         *)
(***************************************************************************)
C21_CreatePengajuan ==
    [][\A input \in CreatePengajuanIzinInputs :
          createPengajuanIzin(input) =>
             IF input.siswa_id \in Ids(siswa)
             THEN /\ pengajuan \subseteq pengajuan'
                  /\ Cardinality(pengajuan' \ pengajuan) = 1
                  /\ \A p \in pengajuan' \ pengajuan :
                        /\ p.id \notin Ids(pengajuan)
                        /\ p.siswa_id = input.siswa_id
                        /\ p.tanggal = input.tanggal
                        /\ p.jenis = input.jenis
                        /\ p.status = "pending"
                        /\ p.reviewer_id = NoId
                        /\ p.reviewed_at = NoTime
             ELSE /\ res'.msg = "Siswa not found"
                  /\ pengajuan' = pengajuan]_vars

\* a second request of the student was filed, next to a reviewed one
C21_CreatedSeen ==
    /\ res.op = "createPengajuanIzin" /\ res.msg = "ok"
    /\ \E p \in pengajuan :
          /\ p.id = res.id /\ p.status = "pending" /\ p.jenis = "sakit"
          /\ p.reviewer_id = NoId /\ p.reviewed_at = NoTime
    /\ \E q \in pengajuan : q.id # res.id /\ q.status = "rejected"

(***************************************************************************)
(* C22: whenever reviewPengajuanIzin throws, because no request has the id *)
(* or because the database refuses a statement, the request keeps its      *)
(* status, reviewer_id and reviewed_at and no attendance row is added.     *)
(***************************************************************************)
C22_FailedReviewUnchanged ==
    [][\A input \in ReviewPengajuanIzinInputs :
          (reviewPengajuanIzin(input) /\ res'.msg # "ok")
              => /\ pengajuan' = pengajuan
                 /\ absensi' = absensi]_vars

\* the attendance rows an approval of request p writes, and the requests alike
C24_RowsFrom(p) ==
    {a \in absensi : /\ a.siswa_id = p.siswa_id
                     /\ a.tanggal = p.tanggal
                     /\ a.status = (IF p.jenis = "sakit" THEN "sakit" ELSE "izin")}

C24_RequestsLike(p) ==
    {q \in pengajuan : /\ q.siswa_id = p.siswa_id
                       /\ q.tanggal = p.tanggal
                       /\ q.jenis = p.jenis}

(***************************************************************************)
(* C24: over any sequence of reviews, at most one attendance row is ever   *)
(* created from a leave request.  Under SpecReview attendance rows come    *)
(* from reviews only and carry their request's student, date and jenis, so *)
(* the rows of a student, date and jenis are then never more than the      *)
(* requests of that student, date and jenis.                               *)
(***************************************************************************)
C24_OneRowPerRequest ==
    \A p \in pengajuan :
        Cardinality(C24_RowsFrom(p)) <= Cardinality(C24_RequestsLike(p))

\* what a rejecting review of the request input.id leaves behind
C30_Rejected(input) ==
    /\ \E q \in pengajuan' :
          /\ q.id = input.id
          /\ q.status = "rejected"
          /\ q.reviewer_id = input.reviewer_id
          /\ q.reviewed_at # NoTime
    /\ \A q \in pengajuan : q.id # input.id => q \in pengajuan'
    /\ Ids(pengajuan') = Ids(pengajuan)
    /\ absensi' = absensi

(***************************************************************************)
(* C30 as stated: a review with status rejected of an existing request,    *)
(* whatever its reviewer_id, sets the request's status to rejected, its    *)
(* reviewer_id to the given reviewer and its reviewed_at to a time, and    *)
(* inserts and changes no attendance row; a review changes the attendance  *)
(* rows only when its status is approved.                                  *)
(***************************************************************************)
C30_RejectedAlways ==
    [][\A input \in ReviewPengajuanIzinInputs :
          reviewPengajuanIzin(input) =>
             /\ (input.status = "rejected" /\ input.id \in Ids(pengajuan))
                    => C30_Rejected(input)
             /\ absensi' # absensi => input.status = "approved"]_vars

(***************************************************************************)
(* C30: a review with status rejected of an existing request, by a         *)
(* reviewer_id that names a user, sets the request's status to rejected,   *)
(* its reviewer_id to the given reviewer and its reviewed_at to a time,    *)
(* and inserts and changes no attendance row; by a reviewer_id that names  *)
(* no user it throws and changes neither the request nor the attendance    *)
(* rows; a review changes the attendance rows only when its status is      *)
(* approved.                                                               *)
(***************************************************************************)
C30_RejectedByUser ==
    [][\A input \in ReviewPengajuanIzinInputs :
          reviewPengajuanIzin(input) =>
             /\ (input.status = "rejected" /\ input.id \in Ids(pengajuan))
                    => IF input.reviewer_id \in Ids(users)
                       THEN C30_Rejected(input)
                       ELSE /\ res'.msg # "ok"
                            /\ pengajuan' = pengajuan
                            /\ absensi' = absensi
             /\ absensi' # absensi => input.status = "approved"]_vars

\* an approved request, with its attendance row, was reviewed again as rejected
C30_RejectedSeen ==
    /\ res.op = "reviewPengajuanIzin" /\ res.msg = "ok"
    /\ \E q \in pengajuan :
          /\ q.id = res.id /\ q.status = "rejected" /\ q.reviewer_id = 2
          /\ \E a \in absensi : a.siswa_id = q.siswa_id /\ a.guru_id = 1

\* the users a login input names that hold a hash hashPassword made of its password
C23_CreatedWith(input) ==
    {u \in users : /\ u.role = input.role
                   /\ identifierOf(u, input.role) = loginIdentifier(input)
                   /\ \E salt \in Salts :
                         u.password_hash = hashPassword(input.password, salt)}

(***************************************************************************)
(* C23: for a user created by createUser with password p, a login with the *)
(* user's role, the identifier of that role and password p succeeds with   *)
(* that user's data.                                                       *)
(***************************************************************************)
C23_LoginAfterCreate ==
    [][\A input \in LoginInputs :
          (/\ login(input)
           /\ Truthy(loginIdentifier(input))
           /\ C23_CreatedWith(input) # {})
              => /\ res'.msg = "Login successful"
                 /\ res'.id \in Ids(C23_CreatedWith(input))]_vars

(***************************************************************************)
(* handlers/absensi.ts: absenMasuk, one step per statement.  A worker      *)
(* holds what its request read between its statements; other requests run *)
(* in between.                                                             *)
(***************************************************************************)
\* the SELECT of the student; the request ends here when there is none
amSiswa(p, input) ==
    /\ am[p].pc = "idle"
    /\ IF ~(\E s \in siswa : s.id = input.siswa_id)
       THEN /\ res' = Result("absenMasuk", "Siswa not found", NoId)
            /\ UNCHANGED am
       ELSE /\ am' = [am EXCEPT ![p] = [pc |-> "select", siswa_id |-> input.siswa_id,
                                        kelas_id |-> Row(siswa, input.siswa_id).kelas_id,
                                        existing |-> NoId]]
            /\ UNCHANGED res
    /\ UNCHANGED <<tables, seq, now, cs, stats, history, cu>>

\* today and tomorrow are computed and the SELECT of today's rows runs; the
\* request keeps the id of existingAbsensi[0], if any
amSelect(p) ==
    /\ am[p].pc = "select"
    /\ IF existingAbsensi(am[p].siswa_id, now) = {}
       THEN am' = [am EXCEPT ![p].pc = "write", ![p].existing = NoId]
       ELSE \E e \in existingAbsensi(am[p].siswa_id, now) :
               am' = [am EXCEPT ![p].pc = "write", ![p].existing = e.id]
    /\ UNCHANGED <<tables, seq, now, cs, res, stats, history, cu>>

\* the UPDATE of the row selected, or the INSERT of a new row
amWrite(p) ==
    /\ am[p].pc = "write"
    /\ IF am[p].existing # NoId
       THEN /\ absensi' = {IF a.id = am[p].existing
                           THEN [a EXCEPT !.waktu_masuk = now, !.status = "hadir"]
                           ELSE a : a \in absensi}
            /\ res' = Result("absenMasuk", "ok", am[p].existing)
            /\ UNCHANGED seq
       ELSE /\ seq.absensi <= MaxAbsensi
            /\ LET row == [id |-> seq.absensi, siswa_id |-> am[p].siswa_id,
                           guru_id |-> NoId, kelas_id |-> am[p].kelas_id,
                           status |-> "hadir", tanggal |-> now, waktu_masuk |-> now,
                           waktu_pulang |-> NoTime, keterangan |-> NULL]
               IN IF AbsensiInsertOK(row)
                  THEN /\ absensi' = absensi \cup {row}
                       /\ seq' = [seq EXCEPT !.absensi = @ + 1]
                       /\ res' = Result("absenMasuk", "ok", seq.absensi)
                  ELSE /\ res' = Result("absenMasuk", FKViolation, NoId)
                       /\ UNCHANGED <<absensi, seq>>
    /\ am' = [am EXCEPT ![p] = AmIdle]
    /\ UNCHANGED <<users, guru, kelas, siswa, pengajuan, now, cs, stats, history, cu>>

(***************************************************************************)
(* Concurrent check-ins: two absenMasuk requests of the seeded student run *)
(* statement by statement while the clock runs.                            *)
(***************************************************************************)
NextMasuk ==
    \/ \E p \in Procs, input \in AbsenInputs : amSiswa(p, input)
    \/ \E p \in Procs : amSelect(p)
    \/ \E p \in Procs : amWrite(p)
    \/ Tick

SpecMasuk == InitIzin /\ [][NextMasuk]_vars

(***************************************************************************)
(* C25: when two absenMasuk calls of a student run concurrently on a day,  *)
(* their reads and writes interleaved in any order, at most one attendance *)
(* row of that student and day exists afterwards.                          *)
(***************************************************************************)
C25_OneRowPerDayConcurrent ==
    \A s \in siswa : \A t \in 0..MaxTime :
        Cardinality(StudentDayRows(absensi, s.id, t)) <= 1

(***************************************************************************)
(* handlers/user.ts: createUser, one step per statement.  A worker holds   *)
(* its input and the password hash between the uniqueness SELECT and the   *)
(* INSERT; other requests run in between.                                  *)
(***************************************************************************)
\* hashPassword, then the SELECT of the users that hold the identifier; the
\* request ends here when there is one
cuCheck(p, input, salt) ==
    /\ cu[p].pc = "idle"
    /\ \/ \E existing \in createUserExisting(input) :
             /\ res' = Result("createUser", AlreadyExists(identifier(existing, input)), NoId)
             /\ UNCHANGED cu
       \/ /\ createUserExisting(input) = {}
          /\ cu' = [cu EXCEPT ![p] = [pc |-> "insert", input |-> input,
                                      password_hash |-> hashPassword(input.password, salt)]]
          /\ UNCHANGED res
    /\ UNCHANGED <<tables, seq, now, cs, stats, history, am>>

\* the INSERT: the users table has no unique constraint to refuse it
cuInsert(p) ==
    /\ cu[p].pc = "insert"
    /\ seq.users <= MaxUsers
    /\ users' = users \cup
           {User(seq.users, cu[p].input.role, cu[p].input.username, cu[p].input.nip,
                 cu[p].input.nisn, cu[p].password_hash)}
    /\ seq' = [seq EXCEPT !.users = @ + 1]
    /\ res' = Result("createUser", "ok", seq.users)
    /\ cu' = [cu EXCEPT ![p] = CuIdle]
    /\ UNCHANGED <<guru, kelas, siswa, absensi, pengajuan, now, cs, stats, history, am>>

(***************************************************************************)
(* Concurrent registrations: two createUser requests run statement by      *)
(* statement from an empty users table, each for a user that holds the     *)
(* identifier of its role and no other.                                    *)
(***************************************************************************)
OwnIdentifierOnly(input) ==
    /\ createIdentifier(input) # NULL
    /\ Cardinality({f \in {"username", "nip", "nisn"} : input[f] # NULL}) = 1

NextCreate ==
    \/ \E p \in Procs, input \in CreateUserInputs, salt \in Salts :
          OwnIdentifierOnly(input) /\ cuCheck(p, input, salt)
    \/ \E p \in Procs : cuInsert(p)

SpecCreate == InitUser /\ [][NextCreate]_vars

(***************************************************************************)
(* C26: when two createUser calls with the same role and the same          *)
(* identifier of that role run concurrently, their existence check and     *)
(* insert interleaved in any order, at most one succeeds: afterwards at    *)
(* most one user row of that role holds the identifier.                    *)
(***************************************************************************)
C26_OneRowPerIdentifier ==
    \A u, v \in users :
        (/\ u.role = v.role
         /\ identifierOf(u, u.role) # NULL
         /\ identifierOf(u, u.role) = identifierOf(v, v.role))
            => u.id = v.id

(***************************************************************************)
(* C27: in every state reached through createUser, updateUser, createSiswa *)
(* and createGuru, every student profile is linked to a user whose role is *)
(* siswa and every teacher profile to a user whose role is guru.           *)
(***************************************************************************)
C27_ProfileRoles ==
    /\ \A s \in siswa : \E u \in users : u.id = s.user_id /\ u.role = "siswa"
    /\ \A g \in guru : \E u \in users : u.id = g.user_id /\ u.role = "guru"

(***************************************************************************)
(* C28: after any sequence of createSiswa calls each user is linked to at  *)
(* most one student profile: no two siswa rows share a user_id.            *)
(***************************************************************************)
C28_OneSiswaPerUser ==
    \A s, t \in siswa : s.user_id = t.user_id => s.id = t.id

(***************************************************************************)
(* Leave and attendance: the seeded student files leave requests, a        *)
(* reviewer who is a teacher reviews them, and the student checks in and   *)
(* out.                                                                    *)
(***************************************************************************)
NextPulang ==
    \/ \E input \in CreatePengajuanIzinInputs : createPengajuanIzin(input)
    \/ \E input \in ReviewPengajuanIzinInputs :
          input.reviewer_id = 1 /\ reviewPengajuanIzin(input)
    \/ \E input \in AbsenInputs : absenMasuk(input)
    \/ \E input \in AbsenInputs : absenPulang(input)

SpecPulang == InitIzin /\ [][NextPulang]_vars

(***************************************************************************)
(* C29: a check-out is recorded only after a check-in: in every state      *)
(* reached through createPengajuanIzin, reviewPengajuanIzin, absenMasuk    *)
(* and absenPulang, every attendance row with a waktu_pulang has a         *)
(* waktu_masuk.                                                            *)
(***************************************************************************)
C29_PulangAfterMasuk ==
    \A a \in absensi : a.waktu_pulang # NoTime => a.waktu_masuk # NoTime

====
